---- MODULE Spec2Model ----
(***************************************************************************)
(* The three cleanup scripts of the repository as one state machine:       *)
(*   scripts/delete-empty-s3-buckets.py    (script = "s3")                 *)
(*   scripts/delete-unused-ebs-volumes.py  (script = "ebs")                *)
(*   scripts/delete-unused-elastic-ips.py  (script = "eip")                *)
(* One behaviour is one run of one script against one account.  Every      *)
(* provider API call is one step; a call may raise; the environment may    *)
(* change a resource between two calls.                                    *)
(***************************************************************************)
EXTENDS Integers, Sequences, FiniteSets, TLC

VARIABLES
  script,        \* which script runs
  entry,         \* "main", or "delete_volumes" (the function called on its own)
  dry_run,       \* the dry_run literal main passes to the destroy function
  buckets,       \* account: bucket name -> [exists, objects, versioning]
  volumes,       \* account: volume index -> [exists, state, attachments]
  addresses,     \* account: allocation id -> [exists, domain, assoc]
  pc,            \* position of the program
  exc,           \* exception that ended the run, "None" while there is none
  regions,       \* main: the region list
  ri,            \* main: index of the region being processed
  listing,       \* get_empty_buckets: response['Buckets']
  k,             \* get_empty_buckets: index into listing
  bucket_region, \* get_empty_buckets: local of the bucket being checked
  cands,         \* empty_buckets / unused_volumes / unused_ips
  i,             \* destroy loop: index into cands
  count,         \* deleted_count / released_count
  total_unused,  \* elastic-ip main: total_unused
  lastReport,    \* the last "Successfully ..." line: the count printed, the list it is of
  outcomes,      \* what the run printed per candidate, in order
  destroyCalls,  \* the destroy calls issued, in order
  rechecked,     \* what the step before re-read of a candidate (NotRechecked: nothing)
  scanLog,       \* what each scan returned, in order: [region, found]
  scanErrors,    \* regions / buckets whose scan call raised (0: list_buckets)
  seen,          \* resource -> attributes the account had when the scan read it
  envSteps,      \* number of changes the environment has made
  envChanged,    \* resources the environment changed since the first run began
  run,           \* 1 in the first run of the script, 2 when it is run again
  prev,          \* what the first run left: its outcomes, whether a call raised, the account
  acct0          \* the account as it was when the first run began

vars == << script, entry, dry_run, buckets, volumes, addresses, pc, exc, regions,
           ri, listing, k, bucket_region, cands, i, count, total_unused, lastReport,
           outcomes, destroyCalls, rechecked, scanLog, scanErrors, seen, envSteps,
           envChanged, run, prev, acct0 >>

acct == << buckets, volumes, addresses >>
locals == << regions, ri, listing, k, bucket_region, cands, i, count, total_unused,
             lastReport >>
logs == << outcomes, destroyCalls, scanLog, scanErrors, seen >>
env == << envSteps, envChanged >>
fixed == << script, entry, dry_run, run, prev, acct0 >>

\* ---------------------------------------------------------------- bounds
NumBuckets == 2
NumRegions == 2
NumVolumes == 3
NumAddresses == 3
MaxEnvSteps == 1

BucketNames == 1..NumBuckets
RegionIds == 1..NumRegions
VolumeIdx == 1..NumVolumes
AllocationIds == 1..NumAddresses

None == "None"
NBSP == "nbsp"

\* ---------------------------------------------------------------- helpers
\* dict.get(key, default)
Get(d, key, default) == IF key \in DOMAIN d THEN d[key] ELSE default

\* str.replace(old, new) on a string held as a sequence of characters
Replace(s, old, new) == [n \in DOMAIN s |-> IF s[n] = old THEN new ELSE s[n]]

\* the region a resource lives in (resources are spread over the regions)
HomeRegion(n) == ((n - 1) % NumRegions) + 1

\* volume.id as the provider gives it
VolumeId(v) == << "v", "o", "l", "-", ToString(v) >>

\* the elements of a set of integers as an ascending sequence
RECURSIVE Ascending(_)
Ascending(S) ==
  IF S = {} THEN << >>
  ELSE LET m == CHOOSE x \in S : \A y \in S : x <= y
       IN << m >> \o Ascending(S \ {m})

Range(s) == {s[n] : n \in DOMAIN s}

\* ---------------------------------------------------------------- account
BucketStates ==
  [exists : {TRUE}, objects : 0..1, versioning : {"Unset", "Suspended", "Enabled"}]
VolumeStates ==
  [exists : {TRUE}, state : {"available", "in-use"}, attachments : 0..1]
AddressStates ==
  [exists : {TRUE}, domain : {"vpc", "standard"}, assoc : BOOLEAN]

Unread == [read |-> FALSE]
NoReport == [count |-> -1, of |-> << >>]
NotRechecked == [id |-> 0, read |-> {}, attrs |-> << >>]
Snapshot(r) == [read |-> TRUE, attrs |-> r]

\* ---------------------------------------------------------------- provider
\* s3_client.get_bucket_location(Bucket=b): buckets of us-east-1 answer None
LocationResponse(b) ==
  [LocationConstraint |-> IF HomeRegion(b) = 1 THEN None ELSE "eu-west-1"]

\* s3_client.list_objects_v2(Bucket=b, MaxKeys=1): 'Contents' only with objects
ListObjectsResponse(b) ==
  IF buckets[b].objects > 0 THEN [KeyCount |-> 1, Contents |-> 1] ELSE [KeyCount |-> 0]

\* s3_client.get_bucket_versioning(Bucket=b): 'Status' only once it was configured
VersioningResponse(b) ==
  IF buckets[b].versioning = "Unset" THEN [Bucket |-> b]
  ELSE [Bucket |-> b, Status |-> buckets[b].versioning]

\* the provider deletes only an existing bucket without objects
CanDeleteBucket(b) == buckets[b].exists /\ buckets[b].objects = 0

\* ---------------------------------------------------------------- records
Outcome(id, region, result, attrs) ==
  [id |-> id, region |-> region, result |-> result, attrs |-> attrs]

DestroyCall(id, region, attrs, ok) ==
  [id |-> id, region |-> region, rechecked |-> rechecked, attrs |-> attrs, ok |-> ok]

\* a destroy loop that never takes the dry-run branch
ReportsOnly_Never(flag) == FALSE

\* `if dry_run:` of the destroy loops
ReportsOnly(flag) == flag

\* a counter that is incremented before the outcome of the call is known
Counted_Always(n, ok) == n + 1

\* deleted_count += 1 / released_count += 1 after a call that returned; the except
\* branch leaves the counter alone
Counted(n, ok) == IF ok THEN n + 1 ELSE n

\* a loop that stays on the same element (a retry)
NextIndex_Stay(idx) == idx

\* `for x in list:` moving on to the next element
NextIndex(idx) == idx + 1

\* a loop that walks the list from its end
Current_Reversed(list, idx) == list[Len(list) + 1 - idx]

\* `for x in list:` the element of the idx-th turn
Current(list, idx) == list[idx]

\* ---------------------------------------------------------------- Init
Init ==
  /\ script \in {"s3", "ebs", "eip"}
  /\ entry \in (IF script = "ebs" THEN {"main", "delete_volumes"} ELSE {"main"})
  /\ dry_run \in BOOLEAN
  /\ buckets \in (IF script = "s3" THEN [BucketNames -> BucketStates] ELSE {<< >>})
  /\ volumes \in (IF script = "ebs" THEN [VolumeIdx -> VolumeStates] ELSE {<< >>})
  /\ addresses \in (IF script = "eip" THEN [AllocationIds -> AddressStates] ELSE {<< >>})
  /\ pc = "main"
  /\ exc = None
  /\ regions = << >>
  /\ ri = 0
  /\ listing = << >>
  /\ k = 0
  /\ bucket_region = None
  /\ cands = << >>
  /\ i = 0
  /\ count = 0
  /\ total_unused = 0
  /\ lastReport = NoReport
  /\ outcomes = << >>
  /\ destroyCalls = << >>
  /\ rechecked = NotRechecked
  /\ scanLog = << >>
  /\ scanErrors = {}
  /\ seen = [n \in (CASE script = "s3" -> BucketNames
                      [] script = "ebs" -> VolumeIdx
                      [] OTHER -> AllocationIds) |-> Unread]
  /\ envSteps = 0
  /\ envChanged = {}
  /\ run = 1
  /\ prev = [outcomes |-> << >>, clean |-> FALSE, account |-> << >>]
  /\ acct0 = acct

\* ---------------------------------------------------------------- s3
\* `continue` / end of the body of the for loop of get_empty_buckets
NextBucket ==
  /\ k' = k + 1
  /\ pc' = IF k + 1 > Len(listing) THEN "s3_main_branch" ELSE "s3_get_location"

\* a handler that leaves the loop instead of going on with the next bucket
BucketCheckRaised_Break ==
  /\ scanErrors' = scanErrors \cup {listing[k]}
  /\ k' = k
  /\ pc' = "s3_main_branch"
  /\ UNCHANGED << bucket_region, cands, seen >>

\* the handler `except Exception as e: print(...); continue` of one bucket
BucketCheckRaised ==
  /\ scanErrors' = scanErrors \cup {listing[k]}
  /\ NextBucket
  /\ UNCHANGED << bucket_region, cands, seen >>

\* main -> get_empty_buckets: list_buckets()
S3ListBuckets ==
  /\ script = "s3" /\ pc = "main"
  /\ rechecked' = NotRechecked
  /\ \/ LET l == Ascending({b \in BucketNames : buckets[b].exists})
        IN /\ listing' = l
           /\ k' = 1
           /\ pc' = IF l = << >> THEN "s3_main_branch" ELSE "s3_get_location"
           /\ UNCHANGED scanErrors
     \/ /\ scanErrors' = scanErrors \cup {0}
        /\ pc' = "s3_main_branch"
        /\ UNCHANGED << listing, k >>
  /\ cands' = << >>
  /\ UNCHANGED << fixed, acct, env, exc, regions, ri, bucket_region, i, count,
                  total_unused, lastReport, outcomes, destroyCalls, scanLog, seen >>

\* an emptiness test on a key every response carries
NoContents_KeyCount(list_response) == "KeyCount" \in DOMAIN list_response

\* `if 'Contents' not in list_response` (the scan) and its negation (the re-check)
NoContents(list_response) == "Contents" \notin DOMAIN list_response

\* get_bucket_location of bucket listing[k]
S3GetLocation ==
  /\ script = "s3" /\ pc = "s3_get_location"
  /\ rechecked' = NotRechecked
  /\ \/ /\ buckets[listing[k]].exists
        /\ bucket_region' = Get(LocationResponse(listing[k]), "LocationConstraint", "us-east-1")
        /\ pc' = "s3_list_objects"
        /\ UNCHANGED << k, cands, scanErrors, seen >>
     \/ BucketCheckRaised
  /\ UNCHANGED << fixed, acct, env, exc, regions, ri, listing, i, count, total_unused,
                  lastReport, outcomes, destroyCalls, scanLog >>

\* list_objects_v2 of bucket listing[k] and `if 'Contents' not in list_response`
S3ListObjects ==
  /\ script = "s3" /\ pc = "s3_list_objects"
  /\ rechecked' = NotRechecked
  /\ \/ LET b == listing[k]
            list_response == ListObjectsResponse(b)
        IN /\ buckets[b].exists
           /\ seen' = [seen EXCEPT ![b] = Snapshot([objects |-> buckets[b].objects,
                                                    versioning |-> None])]
           /\ IF NoContents(list_response)
              THEN pc' = "s3_get_versioning" /\ k' = k
              ELSE NextBucket
           /\ UNCHANGED << bucket_region, cands, scanErrors >>
     \/ BucketCheckRaised
  /\ UNCHANGED << fixed, acct, env, exc, regions, ri, listing, i, count, total_unused,
                  lastReport, outcomes, destroyCalls, scanLog >>

\* the entry appended to empty_buckets
BucketInfo(b, region) ==
  [Name |-> b, Region |-> IF region \notin {None, ""} THEN region ELSE "us-east-1"]

\* a scan that does not look at the versioning status
VersioningAllows_Any(versioning_status) == TRUE

\* `if versioning_status != 'Enabled'`
VersioningAllows(versioning_status) == versioning_status /= "Enabled"

\* a put_bucket_versioning call in the place of the read
AfterGetBucketVersioning_Put(b) == [buckets EXCEPT ![b].versioning = "Suspended"]

\* the buckets after get_bucket_versioning(Bucket=b): a read, they stay as they are
AfterGetBucketVersioning(b) == buckets

\* get_bucket_versioning of bucket listing[k], the append to empty_buckets
S3GetVersioning ==
  /\ script = "s3" /\ pc = "s3_get_versioning"
  /\ rechecked' = NotRechecked
  /\ \/ LET b == listing[k]
            versioning_status == Get(VersioningResponse(b), "Status", "Suspended")
        IN /\ buckets[b].exists
           /\ seen' = [seen EXCEPT ![b].attrs.versioning = buckets[b].versioning]
           /\ cands' = IF VersioningAllows(versioning_status)
                       THEN Append(cands, BucketInfo(b, bucket_region))
                       ELSE cands
           /\ buckets' = AfterGetBucketVersioning(b)
           /\ NextBucket
           /\ UNCHANGED << bucket_region, scanErrors >>
     \/ BucketCheckRaised /\ UNCHANGED buckets
  /\ UNCHANGED << fixed, volumes, addresses, env, exc, regions, ri, listing, i, count,
                  total_unused, lastReport, outcomes, destroyCalls, scanLog >>

\* main: `if empty_buckets:` -> delete_buckets(empty_buckets, dry_run=...)
S3MainBranch ==
  /\ script = "s3" /\ pc = "s3_main_branch"
  /\ rechecked' = NotRechecked
  /\ scanLog' = Append(scanLog, [region |-> "us-east-1", found |-> cands])
  /\ IF cands /= << >>
     THEN pc' = "s3_delete_loop" /\ i' = 1 /\ count' = 0
     ELSE pc' = "done" /\ UNCHANGED << i, count >>
  /\ UNCHANGED << fixed, acct, env, exc, regions, ri, listing, k, bucket_region, cands,
                  total_unused, lastReport, outcomes, destroyCalls, scanErrors, seen >>

\* delete_buckets, dry run: the "[DRY RUN] Would delete" line of one bucket
S3DryRunReport ==
  /\ script = "s3" /\ pc = "s3_delete_loop" /\ i <= Len(cands)
  /\ ReportsOnly(dry_run)
  /\ rechecked' = NotRechecked
  /\ outcomes' = Append(outcomes, Outcome(Current(cands, i).Name, Current(cands, i).Region, "DryRun",
                                          buckets[Current(cands, i).Name]))
  /\ i' = NextIndex(i)
  /\ UNCHANGED << fixed, acct, env, pc, exc, regions, ri, listing, k, bucket_region,
                  cands, count, total_unused, lastReport, destroyCalls, scanLog,
                  scanErrors, seen >>

\* delete_buckets, execute: the second list_objects_v2 ("Double-check")
S3Recheck ==
  /\ script = "s3" /\ pc = "s3_delete_loop" /\ i <= Len(cands)
  /\ ~ReportsOnly(dry_run)
  /\ LET b == Current(cands, i).Name
         list_response == ListObjectsResponse(b)
     IN \/ /\ buckets[b].exists
           /\ ~NoContents(list_response)
           /\ outcomes' = Append(outcomes, Outcome(b, Current(cands, i).Region, "SkippedRace",
                                                   buckets[b]))
           /\ i' = NextIndex(i)
           /\ rechecked' = NotRechecked
           /\ pc' = pc
        \/ /\ buckets[b].exists
           /\ NoContents(list_response)
           /\ rechecked' = [id |-> b, read |-> {"objects"}, attrs |-> buckets[b]]
           /\ pc' = "s3_delete_bucket"
           /\ UNCHANGED << outcomes, i >>
        \/ /\ outcomes' = Append(outcomes, Outcome(b, Current(cands, i).Region, "Failed",
                                                   buckets[b]))
           /\ i' = NextIndex(i)
           /\ rechecked' = NotRechecked
           /\ pc' = pc
  /\ UNCHANGED << fixed, acct, env, exc, regions, ri, listing, k, bucket_region, cands,
                  count, total_unused, lastReport, destroyCalls, scanLog, scanErrors,
                  seen >>

\* delete_buckets, execute: delete_bucket and what follows it
S3DeleteBucket ==
  /\ script = "s3" /\ pc = "s3_delete_bucket"
  /\ LET b == Current(cands, i).Name
     IN \/ /\ CanDeleteBucket(b)
           /\ buckets' = [buckets EXCEPT ![b].exists = FALSE]
           /\ destroyCalls' = Append(destroyCalls,
                                     DestroyCall(b, Current(cands, i).Region, buckets[b], TRUE))
           /\ outcomes' = Append(outcomes, Outcome(b, Current(cands, i).Region, "Deleted",
                                                   rechecked.attrs))
           /\ count' = Counted(count, TRUE)
        \/ /\ destroyCalls' = Append(destroyCalls,
                                     DestroyCall(b, Current(cands, i).Region, buckets[b], FALSE))
           /\ outcomes' = Append(outcomes, Outcome(b, Current(cands, i).Region, "Failed",
                                                   rechecked.attrs))
           /\ count' = Counted(count, FALSE)
           /\ UNCHANGED buckets
  /\ i' = NextIndex(i)
  /\ pc' = "s3_delete_loop"
  /\ rechecked' = NotRechecked
  /\ UNCHANGED << fixed, volumes, addresses, env, exc, regions, ri, listing, k,
                  bucket_region, cands, total_unused, lastReport, scanLog, scanErrors,
                  seen >>

\* delete_buckets: after the loop, the "Successfully deleted" line
S3DeleteDone ==
  /\ script = "s3" /\ pc = "s3_delete_loop" /\ i > Len(cands)
  /\ lastReport' = IF ~ReportsOnly(dry_run) THEN [count |-> count, of |-> cands]
                   ELSE lastReport
  /\ pc' = "done"
  /\ rechecked' = NotRechecked
  /\ UNCHANGED << fixed, acct, env, exc, regions, ri, listing, k, bucket_region, cands,
                  i, count, total_unused, outcomes, destroyCalls, scanLog, scanErrors,
                  seen >>

\* ---------------------------------------------------------------- regions
\* main: [region['RegionName'] for region in describe_regions()['Regions']]
DescribeRegions(next) ==
  /\ pc = "main"
  /\ rechecked' = NotRechecked
  /\ \/ /\ regions' = Ascending(RegionIds)
        /\ ri' = 1
        /\ pc' = next
        /\ exc' = exc
     \/ /\ pc' = "crashed"
        /\ exc' = "ClientError"
        /\ UNCHANGED << regions, ri >>
  /\ UNCHANGED << fixed, acct, env, listing, k, bucket_region, cands, i, count,
                  total_unused, lastReport, logs >>

\* the next turn of `for region in regions:`; after the last one main ends
NextRegion(scan) ==
  /\ ri' = ri + 1
  /\ pc' = IF ri + 1 > Len(regions) THEN "done" ELSE scan

\* ---------------------------------------------------------------- eip
\* one element of describe_addresses()['Addresses']
AddressDict(a) ==
  IF addresses[a].assoc
  THEN [AllocationId |-> a, PublicIp |-> a, Domain |-> addresses[a].domain,
        AssociationId |-> a]
  ELSE [AllocationId |-> a, PublicIp |-> a, Domain |-> addresses[a].domain]

\* a describe_addresses call without the filter
DomainFilter_None(a) == TRUE

\* Filters=[{"Name": "domain", "Values": ["vpc"]}]
DomainFilter(a) == addresses[a].domain = "vpc"

\* describe_addresses(Filters=...) in a region: response['Addresses']
DescribeAddresses(region) ==
  LET ids == Ascending({a \in AllocationIds : /\ addresses[a].exists
                                              /\ HomeRegion(a) = region
                                              /\ DomainFilter(a)})
  IN [n \in DOMAIN ids |-> AddressDict(ids[n])]

\* `if 'AssociationId' not in address`
NotAssociated(address) == "AssociationId" \notin DOMAIN address

\* the loop of get_unused_elastic_ips over response['Addresses']
UnusedIps(response) ==
  LET kept == SelectSeq(response, NotAssociated)
  IN [n \in DOMAIN kept |-> [PublicIp |-> Get(kept[n], "PublicIp", "Unknown"),
                              AllocationId |-> kept[n].AllocationId]]

\* the provider releases only an existing address that is not associated
CanRelease(a) == addresses[a].exists /\ ~addresses[a].assoc

InRegion(S, region) == {n \in S : HomeRegion(n) = region}

EipDescribeRegions == script = "eip" /\ DescribeRegions("eip_scan")

\* main: get_unused_elastic_ips(region) and `if unused_ips:`
EipScan ==
  /\ script = "eip" /\ pc = "eip_scan"
  /\ rechecked' = NotRechecked
  /\ LET region == Current(regions, ri)
     IN \/ LET unused_ips == UnusedIps(DescribeAddresses(region))
           IN /\ seen' = [a \in AllocationIds |->
                            IF HomeRegion(a) = region /\ addresses[a].exists
                            THEN Snapshot(addresses[a]) ELSE seen[a]]
              /\ scanLog' = Append(scanLog, [region |-> region, found |-> unused_ips])
              /\ cands' = unused_ips
              /\ IF unused_ips /= << >>
                 THEN pc' = "eip_release_loop" /\ i' = 1 /\ count' = 0 /\ ri' = ri
                 ELSE NextRegion("eip_scan") /\ UNCHANGED << i, count >>
              /\ UNCHANGED scanErrors
        \/ /\ scanErrors' = scanErrors \cup {region}
           /\ scanLog' = Append(scanLog, [region |-> region, found |-> << >>])
           /\ cands' = << >>
           /\ NextRegion("eip_scan")
           /\ UNCHANGED << seen, i, count >>
  /\ UNCHANGED << fixed, acct, env, exc, regions, listing, k, bucket_region,
                  total_unused, lastReport, outcomes, destroyCalls >>

\* release_elastic_ips, dry run: the "[DRY RUN] Would release" line of one address
EipDryRunReport ==
  /\ script = "eip" /\ pc = "eip_release_loop" /\ i <= Len(cands)
  /\ ReportsOnly(dry_run)
  /\ rechecked' = NotRechecked
  /\ outcomes' = Append(outcomes, Outcome(Current(cands, i).AllocationId, Current(regions, ri), "DryRun",
                                          addresses[Current(cands, i).AllocationId]))
  /\ i' = NextIndex(i)
  /\ UNCHANGED << fixed, acct, env, pc, exc, regions, ri, listing, k, bucket_region,
                  cands, count, total_unused, lastReport, destroyCalls, scanLog,
                  scanErrors, seen >>

\* release_elastic_ips, execute: release_address and what follows it
EipRelease ==
  /\ script = "eip" /\ pc = "eip_release_loop" /\ i <= Len(cands)
  /\ ~ReportsOnly(dry_run)
  /\ LET a == Current(cands, i).AllocationId
     IN \/ /\ CanRelease(a)
           /\ addresses' = [addresses EXCEPT ![a].exists = FALSE]
           /\ destroyCalls' = Append(destroyCalls,
                                     DestroyCall(a, Current(regions, ri), addresses[a], TRUE))
           /\ outcomes' = Append(outcomes, Outcome(a, Current(regions, ri), "Deleted",
                                                   addresses[a]))
           /\ count' = Counted(count, TRUE)
        \/ /\ destroyCalls' = Append(destroyCalls,
                                     DestroyCall(a, Current(regions, ri), addresses[a], FALSE))
           /\ outcomes' = Append(outcomes, Outcome(a, Current(regions, ri), "Failed",
                                                   addresses[a]))
           /\ count' = Counted(count, FALSE)
           /\ UNCHANGED addresses
  /\ i' = NextIndex(i)
  /\ rechecked' = NotRechecked
  /\ UNCHANGED << fixed, buckets, volumes, env, pc, exc, regions, ri, listing, k,
                  bucket_region, cands, total_unused, lastReport, scanLog, scanErrors,
                  seen >>

\* release_elastic_ips: after the loop; main: total_unused += len(unused_ips)
EipReleaseDone ==
  /\ script = "eip" /\ pc = "eip_release_loop" /\ i > Len(cands)
  /\ lastReport' = IF ~ReportsOnly(dry_run) THEN [count |-> count, of |-> cands]
                   ELSE lastReport
  /\ total_unused' = total_unused + Len(cands)
  /\ NextRegion("eip_scan")
  /\ rechecked' = NotRechecked
  /\ UNCHANGED << fixed, acct, env, exc, regions, listing, k, bucket_region, cands, i,
                  count, logs >>

\* ---------------------------------------------------------------- ebs
\* a scan that looks at the state alone
VolumeUnused_StateOnly(volume) == volume.state = "available"

\* `if volume.state == 'available'` and `if not attachments`
VolumeUnused(volume) == volume.state = "available" /\ volume.attachments = 0

\* get_unused_volumes(region): the list it returns
UnusedVolumes(region) ==
  LET ids == Ascending({v \in VolumeIdx : /\ volumes[v].exists
                                          /\ HomeRegion(v) = region
                                          /\ VolumeUnused(volumes[v])})
  IN [n \in DOMAIN ids |-> Replace(VolumeId(ids[n]), NBSP, " ")]

EbsDescribeRegions == script = "ebs" /\ entry = "main" /\ DescribeRegions("ebs_scan")

\* main: get_unused_volumes(region) and `if unused_volumes:`
EbsScan ==
  /\ script = "ebs" /\ pc = "ebs_scan"
  /\ rechecked' = NotRechecked
  /\ LET region == Current(regions, ri)
     IN \/ LET unused_volumes == UnusedVolumes(region)
           IN /\ seen' = [v \in VolumeIdx |->
                            IF HomeRegion(v) = region /\ volumes[v].exists
                            THEN Snapshot(volumes[v]) ELSE seen[v]]
              /\ scanLog' = Append(scanLog, [region |-> region, found |-> unused_volumes])
              /\ cands' = unused_volumes
              /\ IF unused_volumes /= << >>
                 THEN pc' = "ebs_call_delete_volumes" /\ ri' = ri
                 ELSE NextRegion("ebs_scan")
              /\ exc' = exc
              /\ UNCHANGED scanErrors
        \/ /\ pc' = "crashed"
           /\ exc' = "ClientError"
           /\ scanErrors' = scanErrors \cup {region}
           /\ UNCHANGED << seen, scanLog, cands, ri >>
  /\ UNCHANGED << fixed, acct, env, regions, listing, k, bucket_region, i, count,
                  total_unused, lastReport, outcomes, destroyCalls >>

\* main: delete_volumes(unused_volumes, region_name=region, dry_run=True), a call
\* with a keyword delete_volumes(volumes, region_name) does not take
EbsCallDeleteVolumes ==
  /\ script = "ebs" /\ pc = "ebs_call_delete_volumes"
  /\ pc' = "crashed"
  /\ exc' = "TypeError"
  /\ rechecked' = NotRechecked
  /\ UNCHANGED << fixed, acct, env, locals, logs >>

\* delete_volumes(volumes, region_name) called with the arguments it declares:
\* the loop reads the name dry_run, which the module never binds
EbsDeleteVolumes ==
  /\ script = "ebs" /\ entry = "delete_volumes" /\ pc = "main"
  /\ \E region \in RegionIds :
       /\ cands' = UnusedVolumes(region)
       /\ regions' = << region >>
       /\ ri' = 1
  /\ IF cands' = << >>
     THEN pc' = "done" /\ exc' = exc
     ELSE pc' = "crashed" /\ exc' = "NameError"
  /\ rechecked' = NotRechecked
  /\ UNCHANGED << fixed, acct, env, listing, k, bucket_region, i, count, total_unused,
                  lastReport, logs >>

\* ---------------------------------------------------------------- environment
\* somebody else puts an object into a bucket
EnvPutObject ==
  /\ script = "s3" /\ envSteps < MaxEnvSteps /\ pc \notin {"done", "crashed"}
  /\ \E b \in BucketNames :
       /\ buckets[b].exists /\ buckets[b].objects = 0
       /\ buckets' = [buckets EXCEPT ![b].objects = 1]
       /\ envChanged' = envChanged \cup {b}
  /\ envSteps' = envSteps + 1
  /\ UNCHANGED << fixed, volumes, addresses, pc, exc, locals, logs, rechecked >>

\* somebody else turns versioning on for a bucket
EnvEnableVersioning ==
  /\ script = "s3" /\ envSteps < MaxEnvSteps /\ pc \notin {"done", "crashed"}
  /\ \E b \in BucketNames :
       /\ buckets[b].exists /\ buckets[b].versioning /= "Enabled"
       /\ buckets' = [buckets EXCEPT ![b].versioning = "Enabled"]
       /\ envChanged' = envChanged \cup {b}
  /\ envSteps' = envSteps + 1
  /\ UNCHANGED << fixed, volumes, addresses, pc, exc, locals, logs, rechecked >>

\* somebody else attaches a volume
EnvAttachVolume ==
  /\ script = "ebs" /\ envSteps < MaxEnvSteps /\ pc \notin {"done", "crashed"}
  /\ \E v \in VolumeIdx :
       /\ volumes[v].exists /\ VolumeUnused(volumes[v])
       /\ volumes' = [volumes EXCEPT ![v].state = "in-use", ![v].attachments = 1]
       /\ envChanged' = envChanged \cup {v}
  /\ envSteps' = envSteps + 1
  /\ UNCHANGED << fixed, buckets, addresses, pc, exc, locals, logs, rechecked >>

\* somebody else associates an address with an instance or a network interface
EnvAssociateAddress ==
  /\ script = "eip" /\ envSteps < MaxEnvSteps /\ pc \notin {"done", "crashed"}
  /\ \E a \in AllocationIds :
       /\ addresses[a].exists /\ ~addresses[a].assoc
       /\ addresses' = [addresses EXCEPT ![a].assoc = TRUE]
       /\ envChanged' = envChanged \cup {a}
  /\ envSteps' = envSteps + 1
  /\ UNCHANGED << fixed, buckets, volumes, pc, exc, locals, logs, rechecked >>

\* somebody else deletes an empty bucket
EnvDeleteBucket ==
  /\ script = "s3" /\ envSteps < MaxEnvSteps /\ pc \notin {"done", "crashed"}
  /\ \E b \in BucketNames :
       /\ CanDeleteBucket(b)
       /\ buckets' = [buckets EXCEPT ![b].exists = FALSE]
       /\ envChanged' = envChanged \cup {b}
  /\ envSteps' = envSteps + 1
  /\ UNCHANGED << fixed, volumes, addresses, pc, exc, locals, logs, rechecked >>

\* somebody else releases an address
EnvReleaseAddress ==
  /\ script = "eip" /\ envSteps < MaxEnvSteps /\ pc \notin {"done", "crashed"}
  /\ \E a \in AllocationIds :
       /\ CanRelease(a)
       /\ addresses' = [addresses EXCEPT ![a].exists = FALSE]
       /\ envChanged' = envChanged \cup {a}
  /\ envSteps' = envSteps + 1
  /\ UNCHANGED << fixed, buckets, volumes, pc, exc, locals, logs, rechecked >>

\* no provider call of the run raised
Clean == scanErrors = {} /\ exc /= "ClientError"

\* the script is started a second time in dry-run mode, nothing kept but the account
RunAgain ==
  /\ dry_run /\ entry = "main" /\ run = 1 /\ pc \in {"done", "crashed"}
  /\ run' = 2
  /\ prev' = [outcomes |-> outcomes, clean |-> Clean, account |-> acct]
  /\ pc' = "main"
  /\ exc' = None
  /\ regions' = << >>
  /\ ri' = 0
  /\ listing' = << >>
  /\ k' = 0
  /\ bucket_region' = None
  /\ cands' = << >>
  /\ i' = 0
  /\ count' = 0
  /\ total_unused' = 0
  /\ lastReport' = NoReport
  /\ outcomes' = << >>
  /\ destroyCalls' = << >>
  /\ rechecked' = NotRechecked
  /\ scanLog' = << >>
  /\ scanErrors' = {}
  /\ seen' = [n \in DOMAIN seen |-> Unread]
  /\ UNCHANGED << script, entry, dry_run, acct0, acct, env >>

\* one run of a script in an account that others may change meanwhile
Next ==
  \/ S3ListBuckets \/ S3GetLocation \/ S3ListObjects \/ S3GetVersioning
  \/ S3MainBranch \/ S3DryRunReport \/ S3Recheck \/ S3DeleteBucket \/ S3DeleteDone
  \/ EipDescribeRegions \/ EipScan \/ EipDryRunReport \/ EipRelease \/ EipReleaseDone
  \/ EbsDescribeRegions \/ EbsScan \/ EbsCallDeleteVolumes \/ EbsDeleteVolumes
  \/ EnvPutObject \/ EnvEnableVersioning \/ EnvAttachVolume \/ EnvAssociateAddress
  \/ EnvDeleteBucket \/ EnvReleaseAddress

Spec == Init /\ [][Next]_vars

\* a script run, and a dry run run again, in an account nobody else changes
NextTwice ==
  \/ S3ListBuckets \/ S3GetLocation \/ S3ListObjects \/ S3GetVersioning
  \/ S3MainBranch \/ S3DryRunReport \/ S3Recheck \/ S3DeleteBucket \/ S3DeleteDone
  \/ EipDescribeRegions \/ EipScan \/ EipDryRunReport \/ EipRelease \/ EipReleaseDone
  \/ EbsDescribeRegions \/ EbsScan \/ EbsCallDeleteVolumes \/ EbsDeleteVolumes
  \/ RunAgain

SpecTwice == Init /\ [][NextTwice]_vars

\* the exit status of the interpreter: main returns (no sys.exit anywhere), or an
\* exception nobody caught ends it
ExitCode == IF pc = "crashed" THEN 1 ELSE 0

\* ---------------------------------------------------------------- properties
Ended == pc \in {"done", "crashed"}

\* the three eligibility rules, on the attributes of one resource
Eligible(attrs) ==
  CASE script = "s3" -> attrs.objects = 0 /\ attrs.versioning /= "Enabled"
    [] script = "ebs" -> attrs.state = "available" /\ attrs.attachments = 0
    [] OTHER -> ~attrs.assoc

\* the identifier of an entry of a candidate list
CandId(c) ==
  CASE script = "s3" -> c.Name
    [] script = "ebs" -> c
    [] OTHER -> c.AllocationId

\* the identifiers a scan returned
FoundIds(n) == {CandId(scanLog[n].found[m]) : m \in DOMAIN scanLog[n].found}

Reported(id, result) ==
  \E n \in DOMAIN outcomes : outcomes[n].id = id /\ outcomes[n].result = result

\* C1: in dry-run mode no destroy call is issued by any of the three scripts, and
\* no resource of the account is gone unless somebody else removed it.
C1_DryRunNeverDestroys ==
  dry_run =>
    /\ destroyCalls = << >>
    /\ \A b \in DOMAIN buckets \ envChanged : buckets[b].exists
    /\ \A v \in DOMAIN volumes \ envChanged : volumes[v].exists
    /\ \A a \in DOMAIN addresses \ envChanged : addresses[a].exists

C1_Witness ==
  /\ dry_run /\ pc = "done" /\ Len(outcomes) >= 2
  /\ \A n \in DOMAIN outcomes : outcomes[n].result = "DryRun"

\* C2: in execute mode every destroy call comes right after a re-check of the same
\* candidate, and a candidate that is no longer eligible when its turn comes ends as
\* SkippedRace.
C2_FreshCheckBeforeDestroy ==
  ~dry_run =>
    /\ \A n \in DOMAIN destroyCalls : destroyCalls[n].rechecked.id = destroyCalls[n].id
    /\ \A n \in DOMAIN outcomes :
         ~Eligible(outcomes[n].attrs) => outcomes[n].result = "SkippedRace"

\* C3: a candidate that the eligibility rule rejects on what the scan read of it is
\* never Deleted in the same run.
C3_IneligibleAtScanNeverDeleted ==
  \A n \in DOMAIN outcomes :
    outcomes[n].result = "Deleted" =>
      /\ seen[outcomes[n].id].read
      /\ Eligible(seen[outcomes[n].id].attrs)

C3_Witness ==
  /\ \E n \in DOMAIN outcomes : outcomes[n].result = "Deleted"
  /\ \E r \in DOMAIN seen : seen[r].read /\ ~Eligible(seen[r].attrs)

\* C4: delete_bucket is called only for a bucket that satisfied the full bucket rule
\* (no objects, versioning not "Enabled") when it was re-verified.
C4_RecheckAppliesFullRule ==
  script = "s3" =>
    \A n \in DOMAIN destroyCalls : Eligible(destroyCalls[n].rechecked.attrs)

C6_UnusedVolumesIffRule ==
  script = "ebs" =>
    \A n \in DOMAIN scanLog :
      \A v \in InRegion(VolumeIdx, scanLog[n].region) :
        (VolumeId(v) \in FoundIds(n)) <=> Eligible(seen[v].attrs)

C6_Witness ==
  /\ script = "ebs"
  /\ \E n \in DOMAIN scanLog :
       \E v, w \in InRegion(VolumeIdx, scanLog[n].region) :
         /\ VolumeId(v) \in FoundIds(n)
         /\ VolumeId(w) \notin FoundIds(n)
         /\ seen[w].attrs.state = "available"

C8_ScanFailureIsolated ==
  (script \in {"ebs", "eip"} /\ entry = "main" /\ Ended /\ scanErrors /= {}) =>
    \A r \in Range(regions) \ scanErrors :
      \E n \in DOMAIN scanLog : scanLog[n].region = r

\* C9: an execute-mode run ends with every candidate that a scan handed to the destroy
\* step processed: each has an outcome, a failed destroy call among them as Failed.
C9_FailureDoesNotStopRun ==
  (~dry_run /\ Ended) =>
    /\ \A n \in DOMAIN scanLog :
         \A id \in FoundIds(n) : \E m \in DOMAIN outcomes : outcomes[m].id = id
    /\ \A n \in DOMAIN destroyCalls :
         ~destroyCalls[n].ok => Reported(destroyCalls[n].id, "Failed")

\* C10: a dry-run run of main whose region list was obtained and whose scans did not
\* raise ends normally with a dry-run report for every candidate the scans returned.
C10_DryRunReportsEveryCandidate ==
  (dry_run /\ entry = "main" /\ Ended /\ regions /= << >> /\ scanErrors = {}) =>
    /\ pc = "done"
    /\ \A n \in DOMAIN scanLog :
         \A id \in FoundIds(n) : Reported(id, "DryRun")

\* C11: a run that ends without an uncaught exception exits 0 exactly when no
\* candidate ended as Failed: a failed destroy call makes the exit code non-zero.
C11_ExitCodeReflectsFailures ==
  (Ended /\ exc = None) =>
    (ExitCode = 0 <=> ~\E n \in DOMAIN outcomes : outcomes[n].result = "Failed")

\* C12: within a run at most one destroy call is issued per candidate identifier,
\* also after that call failed.
C12_NoDestroyRetried ==
  \A m, n \in DOMAIN destroyCalls :
    destroyCalls[m].id = destroyCalls[n].id => m = n

C12_Witness ==
  /\ Len(destroyCalls) >= 2
  /\ ~destroyCalls[1].ok
  /\ Ended

\* C13: a destroy call on a resource that is already gone counts as a success: the
\* candidate is reported as deleted/released, never as failed.
C13_AlreadyGoneIsSuccess ==
  \A n \in DOMAIN destroyCalls :
    ~destroyCalls[n].attrs.exists =>
      /\ Reported(destroyCalls[n].id, "Deleted")
      /\ ~Reported(destroyCalls[n].id, "Failed")

\* the identifiers of all candidates the scans returned so far, scan after scan
RECURSIVE FoundUpTo(_)
FoundUpTo(n) ==
  IF n = 0 THEN << >>
  ELSE FoundUpTo(n - 1) \o [m \in DOMAIN scanLog[n].found |-> CandId(scanLog[n].found[m])]

IsPrefix(s, t) == Len(s) <= Len(t) /\ \A n \in DOMAIN s : s[n] = t[n]

\* C14: regions are scanned in the order of the region list, a scan returns its
\* candidates in the provider's listing order, and the outcomes follow the order in
\* which the scans returned the candidates.
C14_DeterministicOrder ==
  /\ script /= "s3" =>
       \A n \in DOMAIN scanLog : scanLog[n].region = regions[n]
  /\ script /= "ebs" =>
       /\ IsPrefix([n \in DOMAIN outcomes |-> outcomes[n].id], FoundUpTo(Len(scanLog)))
       /\ \A n \in DOMAIN scanLog :
            \A p, q \in DOMAIN scanLog[n].found :
              p < q => CandId(scanLog[n].found[p]) < CandId(scanLog[n].found[q])

C14_Witness ==
  /\ script = "eip" /\ Ended /\ Len(scanLog) >= 2
  /\ Len(outcomes) >= 3
  /\ outcomes[1].region = 1 /\ outcomes[2].region = 1 /\ outcomes[3].region = 2

\* C15 (under SpecTwice): two dry runs in a row on an account nobody else changes, no
\* provider call raising in either, print the same sequence of outcomes, and the first
\* run leaves the account as it found it.
C15_DryRunTwiceSameOutcomes ==
  (run = 2 /\ pc \in {"done", "crashed"} /\ prev.clean /\ Clean) =>
    /\ outcomes = prev.outcomes
    /\ prev.account = acct0

C15_Witness ==
  /\ run = 2 /\ pc = "done" /\ prev.clean /\ Clean
  /\ Len(outcomes) >= 2
  /\ outcomes = prev.outcomes

\* the program is inside a scan function
InScan ==
  \/ script = "s3" /\ pc \in {"main", "s3_get_location", "s3_list_objects",
                               "s3_get_versioning"}
  \/ pc \in {"eip_scan", "ebs_scan"}

\* C16: a step of get_empty_buckets, get_unused_volumes or get_unused_elastic_ips,
\* whether its call returns or raises, leaves every resource of the account and all
\* its attributes as they were.
C16_ScanLeavesAccount ==
  [][(InScan /\ envSteps' = envSteps) => acct' = acct]_vars

C16_Witness ==
  /\ script = "s3" /\ run = 1 /\ pc = "s3_delete_loop"
  /\ scanErrors /= {} /\ cands /= << >>
  /\ envSteps = 0 /\ acct = acct0

\* C17: a bucket for which get_bucket_location, list_objects_v2 or
\* get_bucket_versioning raised is not in the list get_empty_buckets returns, and
\* every other bucket of the listing was checked and is in the list exactly when it
\* satisfies the rule.
C17_BucketScanFailsSafe ==
  (script = "s3" /\ scanLog /= << >> /\ 0 \notin scanErrors) =>
    /\ \A b \in scanErrors : b \notin FoundIds(1)
    /\ \A b \in Range(listing) \ scanErrors :
         /\ seen[b].read
         /\ b \in FoundIds(1) <=> Eligible(seen[b].attrs)

C17_Witness ==
  /\ script = "s3" /\ scanLog /= << >>
  /\ scanErrors = {1}
  /\ seen[1].read /\ Eligible(seen[1].attrs)
  /\ 2 \in FoundIds(1)

\* C18: the count a "Successfully deleted/released" line prints is the number of
\* destroy calls on candidates of that call's list that returned without error, and it
\* is at most the length of the list.
C18_ReportedCountIsSuccesses ==
  lastReport.count >= 0 =>
    /\ lastReport.count =
         Cardinality({n \in DOMAIN destroyCalls :
                        /\ destroyCalls[n].ok
                        /\ \E m \in DOMAIN lastReport.of :
                             CandId(lastReport.of[m]) = destroyCalls[n].id})
    /\ lastReport.count <= Len(lastReport.of)

C18_Witness ==
  /\ lastReport.count = 1 /\ Len(lastReport.of) = 2
  /\ \E n \in DOMAIN outcomes : outcomes[n].result \in {"Failed", "SkippedRace"}

====
